---- MODULE Spec2Model ----
(***************************************************************************)
(* Model of the cloud-profiler-java core: the memory-interval index        *)
(* (src/src/memory_info.h) and the profile encoder with its driver         *)
(* (src/src/proto.cc).                                                     *)
(***************************************************************************)
EXTENDS Integers, Sequences, FiniteSets, TLC

(***************************************************************************)
(* Bounds of the model.                                                    *)
(***************************************************************************)
\* uintptr_t is modelled as an AddrBits-wide unsigned integer.
AddrBits == 3
\* Largest range length passed to the Add* calls.
MaxLength == 2
\* The largest jmethodID passed to the index; 0 is the null jmethodID.
MaxMethod == 1
\* Largest number of ranges the index is driven to.
MaxRanges == 2

AddrSpace == 2 ^ AddrBits
MaxAddr == AddrSpace - 1
Addrs == 0 .. MaxAddr
Starts == {0, 1, MaxAddr}
Lengths == {0, 1, MaxLength}
MethodIds == {0, MaxMethod}
\* The addresses looked up: those next to the ranges' ends, and the last one.
Points == (0 .. (MaxLength + 1)) \cup {MaxAddr}
Names == {"libjvm.so"}

(***************************************************************************)
(* memory_info.h: MemoryInterval and the sequential meaning of MemoryInfo. *)
(***************************************************************************)
COMPILED_CODE == "COMPILED_CODE"
NATIVE == "NATIVE"

\* MemoryInterval(): the default-constructed ("not found") interval.
MemoryInterval ==
  [start |-> 0, length |-> 0, interval_type |-> COMPILED_CODE,
   method_id |-> 0, name |-> ""]

\* Mutant of Contains: the end start + length is computed first, in the width
\* of an address, and the point compared with it.
ContainsBelowWrappedEnd(interval, other) ==
  other >= interval.start /\ other < ((interval.start + interval.length) % AddrSpace)

\* Mutant of Contains: the upper end is taken inclusive.
ContainsInclusiveEnd(interval, other) ==
  other >= interval.start /\ ((other - interval.start) % AddrSpace) <= interval.length

\* bool Contains(uintptr_t other) const; the subtraction is unsigned.
Contains(interval, other) ==
  other >= interval.start /\ ((other - interval.start) % AddrSpace) < interval.length

\* The interval AddExecutableMemoryRange builds before emplace_back.
ExecutableInterval(start, length, method_id) ==
  [MemoryInterval EXCEPT !.start = start, !.length = length,
                         !.interval_type = COMPILED_CODE, !.method_id = method_id]

\* The interval AddNativeMemoryRange builds; name is an owned copy (strdup).
NativeInterval(start, length, name) ==
  [MemoryInterval EXCEPT !.start = start, !.length = length,
                         !.interval_type = NATIVE, !.name = name]

AddExecutableMemoryRange(ranges, start, length, method_id) ==
  Append(ranges, ExecutableInterval(start, length, method_id))

AddNativeMemoryRange(ranges, start, length, name) ==
  Append(ranges, NativeInterval(start, length, name))

\* The positions the loop of RemoveExecutableMemoryRange would match.
RemoveMatches(ranges, start, method_id) ==
  {i \in DOMAIN ranges : ranges[i].start = start /\ ranges[i].method_id = method_id}

SeqMin(S) == CHOOSE i \in S : \A j \in S : i <= j

EraseAt(ranges, k) ==
  [i \in 1 .. (Len(ranges) - 1) |-> IF i < k THEN ranges[i] ELSE ranges[i + 1]]

\* Mutant of RemoveExecutableMemoryRange: the first range with the start
\* address is erased, whatever its method identity.
RemoveByStartOnly(ranges, start, method_id) ==
  LET matches == {i \in DOMAIN ranges : ranges[i].start = start}
  IN IF matches = {} THEN ranges ELSE EraseAt(ranges, SeqMin(matches))

\* Mutant of RemoveExecutableMemoryRange: the loop does not stop at the first match.
RemoveEveryMatch(ranges, start, method_id) ==
  SelectSeq(ranges, LAMBDA r : ~(r.start = start /\ r.method_id = method_id))

RemoveExecutableMemoryRange(ranges, start, method_id) ==
  IF RemoveMatches(ranges, start, method_id) = {}
    THEN ranges
    ELSE EraseAt(ranges, SeqMin(RemoveMatches(ranges, start, method_id)))

\* Mutant of GetMemoryInterval: the last containing range is returned.
GetLatestMemoryInterval(ranges, point) ==
  IF \E i \in DOMAIN ranges : Contains(ranges[i], point)
    THEN ranges[CHOOSE i \in DOMAIN ranges :
                  /\ Contains(ranges[i], point)
                  /\ \A j \in DOMAIN ranges : Contains(ranges[j], point) => j <= i]
    ELSE MemoryInterval

GetMemoryInterval(ranges, point) ==
  IF \E i \in DOMAIN ranges : Contains(ranges[i], point)
    THEN ranges[SeqMin({i \in DOMAIN ranges : Contains(ranges[i], point)})]
    ELSE MemoryInterval

Count(ranges) == Len(ranges)

(***************************************************************************)
(* proto.cc: the profile encoder.  Strings are sequences of characters.    *)
(***************************************************************************)
\* Largest occurrence count of a trace or of an artificial sample.
MaxCount == 2
Counts == {0, 1, MaxCount}
\* Largest number of Populate and AddArtificialSample calls on one encoder.
MaxEncCalls == 2

\* frame.lineno of a frame that carries an address and no line.
kNativeFrameLineNum == -99

Str_attr == <<"a", "t", "t", "r">>
Str_nanoseconds == <<"n", "a", "n", "o", "s", "e", "c", "o", "n", "d", "s">>
Str_sample == <<"s", "a", "m", "p", "l", "e">>
Str_count == <<"c", "o", "u", "n", "t">>
Str_cpu == <<"c", "p", "u">>
Digits == {"0", "1", "2", "3", "4", "5", "6", "7", "8", "9"}

\* m[k] := v of a std::map / std::unordered_map.
Put(m, k, v) == [x \in DOMAIN m \cup {k} |-> IF x = k THEN v ELSE m[x]]

\* google::javaprofiler::AttributeTable::GetStrings(): attr i names string i.
AttributeStrings == << <<>>, <<"G", "C">> >>

\* perftools::profiles::Builder(): an empty profile whose string 0 is "".
NewBuilder ==
  [profile |-> [string_table |-> << <<>> >>, sample_type |-> <<>>, sample |-> <<>>,
                mapping |-> <<>>, location |-> <<>>, function |-> <<>>,
                period_type |-> [type |-> 0, unit |-> 0], period |-> 0,
                duration_nanos |-> 0],
   strings_ |-> <<>>,
   functions_ |-> <<>>]

\* builder_.StringId(str): the index of str in the string table, added if new.
StringId(bld, str) ==
  IF str = <<>>
    THEN [b |-> bld, id |-> 0]
    ELSE IF str \in DOMAIN bld.strings_
      THEN [b |-> bld, id |-> bld.strings_[str]]
      ELSE LET index == Len(bld.profile.string_table)
           IN [b |-> [bld EXCEPT !.strings_ = Put(@, str, index),
                                 !.profile.string_table = Append(@, str)],
               id |-> index]

\* builder_.FunctionId(name, system_name, file, start_line).
FunctionId(bld, name, system_name, file, start_line) ==
  LET n == StringId(bld, name)
      sn == StringId(n.b, system_name)
      f == StringId(sn.b, file)
      fn == <<n.id, sn.id, f.id, start_line>>
      index == Len(f.b.profile.function) + 1
  IN IF fn \in DOMAIN f.b.functions_
       THEN [b |-> f.b, id |-> f.b.functions_[fn]]
       ELSE [b |-> [f.b EXCEPT
                      !.functions_ = Put(@, fn, index),
                      !.profile.function =
                         Append(@, [id |-> index, name |-> n.id, system_name |-> sn.id,
                                    filename |-> f.id, start_line |-> start_line])],
             id |-> index]

RECURSIVE RegisterStrings(_, _)
RegisterStrings(bld, strs) ==
  IF strs = <<>> THEN bld ELSE RegisterStrings(StringId(bld, Head(strs)).b, Tail(strs))

\* ProfileProtoBuilder(jvmti, native_info).
ProfileProtoBuilder(native_info) ==
  [total_count_ |-> 0, total_weight_ |-> 0,
   builder_ |-> RegisterStrings(NewBuilder, AttributeStrings),
   line_map_ |-> <<>>, address_location_ |-> <<>>,
   native_info_ |-> native_info]

\* google::javaprofiler::SimplifyFunctionName: drops the digits that number a
\* generated class after a '$'.
RECURSIVE DropNumbering(_, _)
DropNumbering(name, after_dollar) ==
  IF name = <<>> THEN <<>>
  ELSE IF after_dollar /\ Head(name) \in Digits
    THEN DropNumbering(Tail(name), TRUE)
    ELSE <<Head(name)>> \o DropNumbering(Tail(name), Head(name) = "$")

SimplifyFunctionName(name) == DropNumbering(name, FALSE)

\* google::javaprofiler::FixMethodParameters: "(I)V" becomes "(int)".
RECURSIVE FixParameterTypes(_)
FixParameterTypes(sig) ==
  IF sig = <<>> \/ Head(sig) = ")" THEN <<")">>
  ELSE (CASE Head(sig) = "(" -> <<"(">>
          [] Head(sig) = "I" -> <<"i", "n", "t">>
          [] Head(sig) = "J" -> <<"l", "o", "n", "g">>
          [] OTHER -> <<Head(sig)>>) \o FixParameterTypes(Tail(sig))

FixMethodParameters(signature) ==
  IF signature = <<>> THEN <<>> ELSE FixParameterTypes(signature)

\* What jvmti knows of each jmethodID; method 3 has no symbols.
MethodTable ==
  (1 :> [class_name |-> <<"A">>, method_name |-> <<"f">>,
         signature |-> <<"(", "I", ")", "V">>, file_name |-> <<"A", ".", "j">>]) @@
  (2 :> [class_name |-> <<"A", "$", "7">>, method_name |-> <<"g">>,
         signature |-> <<>>, file_name |-> <<"A", ".", "j">>]) @@
  (3 :> [class_name |-> <<>>, method_name |-> <<>>,
         signature |-> <<>>, file_name |-> <<>>])

\* The line table of a method: two bytecode indices per source line.
LineNumber(method_id, lineno) ==
  IF MethodTable[method_id].method_name = <<>> THEN 0 ELSE 10 + (lineno \div 2)

\* google::javaprofiler::GetStackFrameElements(jvmti_, frame, ...).
GetStackFrameElements(frame) ==
  [file_name |-> MethodTable[frame.method_id].file_name,
   class_name |-> MethodTable[frame.method_id].class_name,
   method_name |-> MethodTable[frame.method_id].method_name,
   signature |-> MethodTable[frame.method_id].signature,
   line_number |-> LineNumber(frame.method_id, frame.lineno)]

\* Mutant of LocationID_address: a seen address gets a new Location again.
LocationID_addressNoDedup(e, address) ==
  LET location_id == Len(e.builder_.profile.location) + 1
  IN [e |-> [e EXCEPT
         !.address_location_ = Put(@, address, location_id),
         !.builder_.profile.location =
            Append(@, [id |-> location_id, address |-> address, line |-> <<>>])],
      id |-> location_id]

\* Mutant of LocationID_address: the new id is counted from the address table
\* instead of from the profile's Locations.
LocationID_addressOwnCounter(e, address) ==
  LET found == IF address \in DOMAIN e.address_location_
                 THEN e.address_location_[address] ELSE 0
      location_id == Cardinality(DOMAIN e.address_location_) + 1
  IN IF found # 0
       THEN [e |-> e, id |-> found]
       ELSE [e |-> [e EXCEPT
                !.address_location_ = Put(@, address, location_id),
                !.builder_.profile.location =
                   Append(@, [id |-> location_id, address |-> address, line |-> <<>>])],
             id |-> location_id]

\* uint64_t LocationID(uint64_t address).
LocationID_address(e, address) ==
  LET found == IF address \in DOMAIN e.address_location_
                 THEN e.address_location_[address] ELSE 0
      location_id == Len(e.builder_.profile.location) + 1
  IN IF found # 0
       THEN [e |-> e, id |-> found]
       ELSE [e |-> [e EXCEPT
                !.address_location_ = Put(@, address, location_id),
                !.builder_.profile.location =
                   Append(@, [id |-> location_id, address |-> address, line |-> <<>>])],
             id |-> location_id]

\* The frame name LocationID builds from class, method and signature.
FrameName(class_name, method_name, signature) ==
  (IF class_name # <<>> THEN class_name \o <<".">> ELSE <<>>)
    \o method_name \o signature

\* Mutant of LocationID_names: the Location is keyed by the function alone.
LocationID_namesKeyedByFunction(e, class_name, method_name, signature, file_name, line_number) ==
  LET frame_name == FrameName(class_name, method_name, signature)
      fn == FunctionId(e.builder_, SimplifyFunctionName(frame_name), frame_name,
                       file_name, 0)
      location_id == Len(fn.b.profile.location) + 1
      function_line == <<fn.id, 0>>
  IN IF function_line \in DOMAIN e.line_map_
       THEN [e |-> [e EXCEPT !.builder_ = fn.b], id |-> e.line_map_[function_line]]
       ELSE [e |-> [e EXCEPT
                !.builder_ = [fn.b EXCEPT !.profile.location =
                   Append(@, [id |-> location_id, address |-> 0,
                              line |-> <<[function_id |-> fn.id, line |-> line_number]>>])],
                !.line_map_ = Put(@, function_line, location_id)],
             id |-> location_id]

\* uint64_t LocationID(class_name, method_name, signature, file_name, line_number).
LocationID_names(e, class_name, method_name, signature, file_name, line_number) ==
  LET frame_name == FrameName(class_name, method_name, signature)
      fn == FunctionId(e.builder_, SimplifyFunctionName(frame_name), frame_name,
                       file_name, 0)
      location_id == Len(fn.b.profile.location) + 1
      function_line == <<fn.id, line_number>>
  IN IF function_line \in DOMAIN e.line_map_
       THEN [e |-> [e EXCEPT !.builder_ = fn.b], id |-> e.line_map_[function_line]]
       ELSE [e |-> [e EXCEPT
                !.builder_ = [fn.b EXCEPT !.profile.location =
                   Append(@, [id |-> location_id, address |-> 0,
                              line |-> <<[function_id |-> fn.id, line |-> line_number]>>])],
                !.line_map_ = Put(@, function_line, location_id)],
             id |-> location_id]

\* Mutant of LocationID_frame: a managed frame whose resolved fields are all
\* empty is recorded by its method identity, as a native frame is.
LocationID_frameAddressFallback(e, frame) ==
  IF frame.lineno = kNativeFrameLineNum
    THEN LocationID_address(e, frame.method_id)
    ELSE LET el == GetStackFrameElements(frame)
         IN IF el.class_name = <<>> /\ el.method_name = <<>>
              THEN LocationID_address(e, frame.method_id)
              ELSE LocationID_names(e, el.class_name, el.method_name,
                                    FixMethodParameters(el.signature), el.file_name,
                                    el.line_number)

\* uint64_t LocationID(const JVMPI_CallFrame &frame).
LocationID_frame(e, frame) ==
  IF frame.lineno = kNativeFrameLineNum
    THEN LocationID_address(e, frame.method_id)
    ELSE LET el == GetStackFrameElements(frame)
         IN LocationID_names(e, el.class_name, el.method_name,
                             FixMethodParameters(el.signature), el.file_name,
                             el.line_number)

\* Mutant of AddSample: the count is not added to the running total.
AddSampleNoTotal(e, locations, count, weight, attr) ==
  LET key == StringId(e.builder_, Str_attr)
      sample == [value |-> <<count, weight>>, location_id |-> locations,
                 label |-> IF attr # 0 THEN <<[key |-> key.id, str |-> attr]>> ELSE <<>>]
      bld == IF attr # 0 THEN key.b ELSE e.builder_
  IN [e EXCEPT !.total_weight_ = @ + weight,
               !.builder_ = [bld EXCEPT !.profile.sample = Append(@, sample)]]

\* Mutant of AddSample: the label is attached whatever attr is.
AddSampleAlwaysLabel(e, locations, count, weight, attr) ==
  LET key == StringId(e.builder_, Str_attr)
      sample == [value |-> <<count, weight>>, location_id |-> locations,
                 label |-> <<[key |-> key.id, str |-> attr]>>]
  IN [e EXCEPT !.total_count_ = @ + count, !.total_weight_ = @ + weight,
               !.builder_ = [key.b EXCEPT !.profile.sample = Append(@, sample)]]

\* void AddSample(locations, count, weight, attr).
AddSample(e, locations, count, weight, attr) ==
  LET key == StringId(e.builder_, Str_attr)
      sample == [value |-> <<count, weight>>, location_id |-> locations,
                 label |-> IF attr # 0 THEN <<[key |-> key.id, str |-> attr]>> ELSE <<>>]
      bld == IF attr # 0 THEN key.b ELSE e.builder_
  IN [e EXCEPT !.total_count_ = @ + count, !.total_weight_ = @ + weight,
               !.builder_ = [bld EXCEPT !.profile.sample = Append(@, sample)]]

\* void AddArtificialSample(name, count, weight, attr).
AddArtificialSample(e, name, count, weight, attr) ==
  LET loc == LocationID_names(e, <<>>, name, <<>>, <<>>, 0)
  IN AddSample(loc.e, <<loc.id>>, count, weight, attr)

TotalCount(e) == e.total_count_

TotalWeight(e) == e.total_weight_

\* The loop over trace.first.frames: locations.push_back(LocationID(frame)).
RECURSIVE FrameLocations(_, _, _)
FrameLocations(e, frames, locations) ==
  IF frames = <<>>
    THEN [e |-> e, locations |-> locations]
    ELSE LET loc == LocationID_frame(e, Head(frames))
         IN FrameLocations(loc.e, Tail(frames), Append(locations, loc.id))

\* Mutant of PopulateTraces: the frames of a trace are resolved before its
\* count is looked at, so a trace with count 0 still creates its Locations.
RECURSIVE PopulateTracesResolveFirst(_, _, _)
PopulateTracesResolveFirst(e, traces, period_ns) ==
  IF traces = <<>> THEN e
  ELSE LET trace == Head(traces)
           count == trace.second
           locs == FrameLocations(e, trace.first.frames, <<>>)
       IN PopulateTracesResolveFirst(
            IF count # 0
              THEN AddSample(locs.e, locs.locations, count, count * period_ns,
                             trace.first.attr)
              ELSE locs.e,
            Tail(traces), period_ns)

\* Mutant of PopulateTraces: a sample's weight is the period, not count * period.
RECURSIVE PopulateTracesWeightIsPeriod(_, _, _)
PopulateTracesWeightIsPeriod(e, traces, period_ns) ==
  IF traces = <<>> THEN e
  ELSE LET trace == Head(traces)
           count == trace.second
           locs == FrameLocations(e, trace.first.frames, <<>>)
       IN PopulateTracesWeightIsPeriod(
            IF count # 0
              THEN AddSample(locs.e, locs.locations, count, period_ns, trace.first.attr)
              ELSE e,
            Tail(traces), period_ns)

\* The loop of Populate over the traces, in the multiset's iteration order.
RECURSIVE PopulateTraces(_, _, _)
PopulateTraces(e, traces, period_ns) ==
  IF traces = <<>> THEN e
  ELSE LET trace == Head(traces)
           count == trace.second
           locs == FrameLocations(e, trace.first.frames, <<>>)
       IN PopulateTraces(
            IF count # 0
              THEN AddSample(locs.e, locs.locations, count, count * period_ns,
                             trace.first.attr)
              ELSE e,
            Tail(traces), period_ns)

\* The loop of Populate over native_info_.Mappings().
RECURSIVE PopulateMappings(_, _)
PopulateMappings(bld, mappings) ==
  IF mappings = <<>> THEN bld
  ELSE LET mapping == Head(mappings)
           name == StringId(bld, mapping.name)
       IN PopulateMappings(
            [name.b EXCEPT !.profile.mapping =
               Append(@, [id |-> Len(@) + 1, memory_start |-> mapping.start,
                          memory_limit |-> mapping.limit, filename |-> name.id])],
            Tail(mappings))

\* Mutant of Populate: the two sample types are declared in the other order.
PopulateDimensionsSwapped(e, profile_type, traces, duration_ns, period_ns) ==
  LET pt == StringId(e.builder_, profile_type)
      ns == StringId(pt.b, Str_nanoseconds)
      sm == StringId(ns.b, Str_sample)
      ct == StringId(sm.b, Str_count)
      head == [ct.b EXCEPT
                 !.profile.period_type = [type |-> pt.id, unit |-> ns.id],
                 !.profile.period = period_ns,
                 !.profile.sample_type =
                    @ \o <<[type |-> pt.id, unit |-> ns.id],
                           [type |-> sm.id, unit |-> ct.id]>>,
                 !.profile.duration_nanos = duration_ns]
      sampled == PopulateTraces([e EXCEPT !.builder_ = head], traces, period_ns)
  IN [sampled EXCEPT !.builder_ = PopulateMappings(@, sampled.native_info_)]

\* void Populate(profile_type, traces, duration_ns, period_ns).
Populate(e, profile_type, traces, duration_ns, period_ns) ==
  LET pt == StringId(e.builder_, profile_type)
      ns == StringId(pt.b, Str_nanoseconds)
      sm == StringId(ns.b, Str_sample)
      ct == StringId(sm.b, Str_count)
      head == [ct.b EXCEPT
                 !.profile.period_type = [type |-> pt.id, unit |-> ns.id],
                 !.profile.period = period_ns,
                 !.profile.sample_type =
                    @ \o <<[type |-> sm.id, unit |-> ct.id],
                           [type |-> pt.id, unit |-> ns.id]>>,
                 !.profile.duration_nanos = duration_ns]
      sampled == PopulateTraces([e EXCEPT !.builder_ = head], traces, period_ns)
  IN [sampled EXCEPT !.builder_ = PopulateMappings(@, sampled.native_info_)]

(***************************************************************************)
(* Serialization: builder_.Emit and the wire form of the profile.          *)
(***************************************************************************)
RECURSIVE Flatten(_)
Flatten(seqs) == IF seqs = <<>> THEN <<>> ELSE Head(seqs) \o Flatten(Tail(seqs))

\* One length-delimited field of the Profile message.
Field(tag, payload) == <<tag, Len(payload)>> \o payload

WireSample(sm) ==
  <<Len(sm.location_id)>> \o sm.location_id \o <<Len(sm.value)>> \o sm.value
    \o <<Len(sm.label)>> \o Flatten([i \in DOMAIN sm.label |-> <<sm.label[i].key, sm.label[i].str>>])

WireLocation(loc) ==
  <<loc.id, loc.address, Len(loc.line)>>
    \o Flatten([i \in DOMAIN loc.line |-> <<loc.line[i].function_id, loc.line[i].line>>])

\* perftools::profiles::Marshal: the fields of the Profile message in tag order.
Marshal(profile) ==
  Flatten([i \in DOMAIN profile.sample_type |->
             Field(1, <<profile.sample_type[i].type, profile.sample_type[i].unit>>)])
  \o Flatten([i \in DOMAIN profile.sample |-> Field(2, WireSample(profile.sample[i]))])
  \o Flatten([i \in DOMAIN profile.mapping |->
             Field(3, <<profile.mapping[i].id, profile.mapping[i].memory_start,
                        profile.mapping[i].memory_limit, profile.mapping[i].filename>>)])
  \o Flatten([i \in DOMAIN profile.location |-> Field(4, WireLocation(profile.location[i]))])
  \o Flatten([i \in DOMAIN profile.function |->
             Field(5, <<profile.function[i].id, profile.function[i].name,
                        profile.function[i].system_name, profile.function[i].filename,
                        profile.function[i].start_line>>)])
  \o Flatten([i \in DOMAIN profile.string_table |-> Field(6, profile.string_table[i])])
  \o Field(11, <<profile.period_type.type, profile.period_type.unit>>)
  \o Field(12, <<profile.period>>)
  \o Field(10, <<profile.duration_nanos>>)

\* How a call of builder_.Emit(&out) can end.
EmitOutcomes == {"ok", "finalize_failed", "marshal_failed"}

\* bool Builder::Emit(string *output): the output is cleared first; a failed
\* Marshal leaves what it had written.
BuilderEmit(bld, outcome) ==
  CASE outcome = "ok" -> [ok |-> TRUE, out |-> Marshal(bld.profile)]
    [] outcome = "finalize_failed" -> [ok |-> FALSE, out |-> <<>>]
    [] OTHER -> [ok |-> FALSE,
                 out |-> SubSeq(Marshal(bld.profile), 1, Len(Marshal(bld.profile)) \div 2)]

\* string Emit() { string out; builder_.Emit(&out); return out; }
Emit(e, outcome) == BuilderEmit(e.builder_, outcome).out

\* A default-constructed perftools::profiles::Profile message.
DefaultProfile ==
  [string_table |-> <<>>, sample_type |-> <<>>, sample |-> <<>>,
   mapping |-> <<>>, location |-> <<>>, function |-> <<>>,
   period_type |-> [type |-> 0, unit |-> 0], period |-> 0,
   duration_nanos |-> 0]

\* void Encode(Profile *p) { p->Swap(builder_.mutable_profile()); }
\* The encoder gets the caller's message, the caller the encoder's profile.
Encode(e, p) ==
  [e |-> [e EXCEPT !.builder_.profile = p], p |-> e.builder_.profile]

(***************************************************************************)
(* State.                                                                  *)
(***************************************************************************)
VARIABLES
  memory_ranges_,   \* MemoryInfo::memory_ranges_
  call,             \* the last call made on the index, with its arguments
  ret,              \* what that call returned
  pre,              \* memory_ranges_ as it was when that call started
  lock_,            \* MemoryInfo::lock_: the thread that holds it, or NoThread
  thread,           \* per thread: position, current call, locals, result
  lin,              \* the index as the calls linearized so far leave it
  expect,           \* per thread: the result of its call at its linearization point
  enc,              \* the ProfileProtoBuilder object
  ecall,            \* the last call made on the encoder, with its arguments
  epre,             \* the encoder as it was when that call started
  sample_frames,    \* for each recorded sample, the resolved frames it came from
  fed_count,        \* the counts of all samples handed to the encoder, summed
  drv               \* SerializeAndClearJavaCpuTraces: position, arguments, result

seqVars == <<call, ret, pre>>
concVars == <<lock_, thread, lin, expect>>
idxVars == <<memory_ranges_, call, ret, pre, lock_, thread, lin, expect>>
encVars == <<enc, ecall, epre, sample_frames, fed_count>>
protoVars == <<encVars, drv>>
vars == <<memory_ranges_, call, ret, pre, lock_, thread, lin, expect,
          enc, ecall, epre, sample_frames, fed_count, drv>>

Void == "void"
NoThread == "none"
Threads == {"t1", "t2"}

Idle == [pc |-> "idle", call |-> [op |-> "none"], interval |-> MemoryInterval,
         it |-> 0, result |-> Void]

SeqInit ==
  /\ call = [op |-> "MemoryInfo"]
  /\ ret = Void
  /\ pre = <<>>

ConcInit ==
  /\ lock_ = NoThread
  /\ thread = [t \in Threads |-> Idle]
  /\ lin = <<>>
  /\ expect = [t \in Threads |-> Void]

\* native_info.Mappings() of the process, as handed to the encoder.
NativeInfos == {<<>>, <<[start |-> 4, limit |-> 6, name |-> <<"l", "i", "b">>]>>}

EncInitWith(native_info) ==
  /\ enc = ProfileProtoBuilder(native_info)
  /\ ecall = [op |-> "ProfileProtoBuilder", n |-> 0]
  /\ epre = ProfileProtoBuilder(native_info)
  /\ sample_frames = <<>>
  /\ fed_count = 0

IdxOnlyInit ==
  /\ memory_ranges_ = <<>>
  /\ SeqInit
  /\ ConcInit

\* The driver before it is called.
NotCalled ==
  [pc |-> "none", traces |-> <<>>, entry |-> <<>>, extra_frames |-> <<>>,
   period_ns |-> 0, duration_ns |-> 0, emit_ok |-> TRUE, returned |-> FALSE,
   result |-> <<>>]

IdxInit ==
  /\ IdxOnlyInit
  /\ EncInitWith(<<>>)
  /\ drv = NotCalled

CallAddExecutableMemoryRange ==
  \E start \in Starts, length \in Lengths, method_id \in MethodIds :
    /\ Len(memory_ranges_) < MaxRanges
    /\ memory_ranges_' = AddExecutableMemoryRange(memory_ranges_, start, length, method_id)
    /\ call' = [op |-> "AddExecutableMemoryRange", start |-> start,
                length |-> length, method_id |-> method_id]
    /\ ret' = Void
    /\ pre' = memory_ranges_
    /\ UNCHANGED <<concVars, protoVars>>

CallAddNativeMemoryRange ==
  \E start \in Starts, length \in Lengths, name \in Names :
    /\ Len(memory_ranges_) < MaxRanges
    /\ memory_ranges_' = AddNativeMemoryRange(memory_ranges_, start, length, name)
    /\ call' = [op |-> "AddNativeMemoryRange", start |-> start,
                length |-> length, name |-> name]
    /\ ret' = Void
    /\ pre' = memory_ranges_
    /\ UNCHANGED <<concVars, protoVars>>

CallRemoveExecutableMemoryRange ==
  \E start \in Starts, method_id \in MethodIds :
    /\ memory_ranges_' = RemoveExecutableMemoryRange(memory_ranges_, start, method_id)
    /\ call' = [op |-> "RemoveExecutableMemoryRange", start |-> start,
                method_id |-> method_id]
    /\ ret' = Void
    /\ pre' = memory_ranges_
    /\ UNCHANGED <<concVars, protoVars>>

CallGetMemoryInterval ==
  \E point \in Points :
    /\ ret' = GetMemoryInterval(memory_ranges_, point)
    /\ call' = [op |-> "GetMemoryInterval", point |-> point]
    /\ pre' = memory_ranges_
    /\ UNCHANGED <<memory_ranges_, concVars, protoVars>>

CallCount ==
  /\ ret' = Count(memory_ranges_)
  /\ call' = [op |-> "Count"]
  /\ pre' = memory_ranges_
  /\ UNCHANGED <<memory_ranges_, concVars, protoVars>>

IdxNext ==
  \/ CallAddExecutableMemoryRange
  \/ CallAddNativeMemoryRange
  \/ CallRemoveExecutableMemoryRange
  \/ CallGetMemoryInterval
  \/ CallCount

\* The index driven by one caller at a time.
SpecIdx == IdxInit /\ [][IdxNext]_vars

(***************************************************************************)
(* MemoryInfo called from several threads, one statement per step.         *)
(***************************************************************************)
\* Arguments the concurrent callers pass.
ConcStarts == {0, 1}
ConcLengths == {MaxLength}
ConcMethodIds == {MaxMethod}
ConcPoints == {1, MaxLength}

ConcCalls ==
  {[op |-> "AddExecutableMemoryRange", start |-> s, length |-> l, method_id |-> m] :
     s \in ConcStarts, l \in ConcLengths, m \in ConcMethodIds}
  \cup {[op |-> "AddNativeMemoryRange", start |-> s, length |-> l, name |-> n] :
     s \in ConcStarts, l \in ConcLengths, n \in Names}
  \cup {[op |-> "RemoveExecutableMemoryRange", start |-> s, method_id |-> m] :
     s \in ConcStarts, m \in ConcMethodIds}
  \cup {[op |-> "GetMemoryInterval", point |-> p] : p \in ConcPoints}
  \cup {[op |-> "Count"]}

IsAdd(c) == c.op \in {"AddExecutableMemoryRange", "AddNativeMemoryRange"}

\* What a call returns when run alone on ranges.
SeqResult(c, ranges) ==
  CASE c.op = "GetMemoryInterval" -> GetMemoryInterval(ranges, c.point)
    [] c.op = "Count" -> Count(ranges)
    [] OTHER -> Void

\* What a call leaves of ranges when run alone.
SeqEffect(c, ranges) ==
  CASE c.op = "AddExecutableMemoryRange" ->
         AddExecutableMemoryRange(ranges, c.start, c.length, c.method_id)
    [] c.op = "AddNativeMemoryRange" ->
         AddNativeMemoryRange(ranges, c.start, c.length, c.name)
    [] c.op = "RemoveExecutableMemoryRange" ->
         RemoveExecutableMemoryRange(ranges, c.start, c.method_id)
    [] OTHER -> ranges

\* Mutant of MutexAvailable: the critical section is entered without the lock.
MutexNotTaken(holder) == TRUE

\* std::lock_guard<std::mutex> l(lock_) blocks until no thread holds lock_.
MutexAvailable(holder) == holder = NoThread

\* A thread starts a call.
Invoke(t) ==
  \E c \in ConcCalls :
    /\ thread[t].pc = "idle"
    /\ IsAdd(c) =>
         Len(memory_ranges_)
           + Cardinality({u \in Threads : thread[u].pc # "idle" /\ IsAdd(thread[u].call)})
           < MaxRanges
    /\ thread' = [thread EXCEPT ![t] = [Idle EXCEPT !.pc = "lock", !.call = c]]
    /\ UNCHANGED <<memory_ranges_, lock_, lin, expect, seqVars, protoVars>>

\* The lock_guard constructor; the call takes effect in lin here.
Lock(t) ==
  /\ thread[t].pc = "lock"
  /\ MutexAvailable(lock_)
  /\ lock_' = t
  /\ thread' = [thread EXCEPT ![t].pc =
       CASE IsAdd(thread[t].call) -> "ctor"
         [] thread[t].call.op = "Count" -> "size"
         [] OTHER -> "begin"]
  /\ lin' = SeqEffect(thread[t].call, lin)
  /\ expect' = [expect EXCEPT ![t] = SeqResult(thread[t].call, lin)]
  /\ UNCHANGED <<memory_ranges_, seqVars, protoVars>>

\* MemoryInterval interval;
Ctor(t) ==
  /\ thread[t].pc = "ctor"
  /\ thread' = [thread EXCEPT ![t].interval = MemoryInterval, ![t].pc = "set_start"]
  /\ UNCHANGED <<memory_ranges_, lock_, lin, expect, seqVars, protoVars>>

\* interval.start = start;
SetStart(t) ==
  /\ thread[t].pc = "set_start"
  /\ thread' = [thread EXCEPT ![t].interval.start = thread[t].call.start,
                              ![t].pc = "set_length"]
  /\ UNCHANGED <<memory_ranges_, lock_, lin, expect, seqVars, protoVars>>

\* interval.length = length;
SetLength(t) ==
  /\ thread[t].pc = "set_length"
  /\ thread' = [thread EXCEPT ![t].interval.length = thread[t].call.length,
                              ![t].pc = "set_type"]
  /\ UNCHANGED <<memory_ranges_, lock_, lin, expect, seqVars, protoVars>>

\* interval.interval_type = COMPILED_CODE; or = NATIVE;
SetType(t) ==
  /\ thread[t].pc = "set_type"
  /\ thread' = [thread EXCEPT
       ![t].interval.interval_type =
          IF thread[t].call.op = "AddNativeMemoryRange" THEN NATIVE ELSE COMPILED_CODE,
       ![t].pc = "set_identity"]
  /\ UNCHANGED <<memory_ranges_, lock_, lin, expect, seqVars, protoVars>>

\* interval.method_id = method_id; or interval.name = strdup(name);
SetIdentity(t) ==
  /\ thread[t].pc = "set_identity"
  /\ thread' = [thread EXCEPT
       ![t].interval =
          IF thread[t].call.op = "AddNativeMemoryRange"
            THEN [@ EXCEPT !.name = thread[t].call.name]
            ELSE [@ EXCEPT !.method_id = thread[t].call.method_id],
       ![t].pc = "emplace_back"]
  /\ UNCHANGED <<memory_ranges_, lock_, lin, expect, seqVars, protoVars>>

\* memory_ranges_.emplace_back(interval);
EmplaceBack(t) ==
  /\ thread[t].pc = "emplace_back"
  /\ memory_ranges_' = Append(memory_ranges_, thread[t].interval)
  /\ thread' = [thread EXCEPT ![t].pc = "unlock"]
  /\ UNCHANGED <<lock_, lin, expect, seqVars, protoVars>>

\* it = memory_ranges_.begin() of either loop.
Begin(t) ==
  /\ thread[t].pc = "begin"
  /\ thread' = [thread EXCEPT ![t].it = 1, ![t].pc = "loop"]
  /\ UNCHANGED <<memory_ranges_, lock_, lin, expect, seqVars, protoVars>>

\* One iteration of the loop of RemoveExecutableMemoryRange.
RemoveLoop(t) ==
  /\ thread[t].pc = "loop"
  /\ thread[t].call.op = "RemoveExecutableMemoryRange"
  /\ LET i == thread[t].it IN
       IF i > Len(memory_ranges_)
         THEN /\ thread' = [thread EXCEPT ![t].pc = "unlock"]
              /\ UNCHANGED memory_ranges_
         ELSE IF /\ memory_ranges_[i].start = thread[t].call.start
                 /\ memory_ranges_[i].method_id = thread[t].call.method_id
                THEN /\ memory_ranges_' = EraseAt(memory_ranges_, i)
                     /\ thread' = [thread EXCEPT ![t].pc = "unlock"]
                ELSE /\ thread' = [thread EXCEPT ![t].it = i + 1]
                     /\ UNCHANGED memory_ranges_
  /\ UNCHANGED <<lock_, lin, expect, seqVars, protoVars>>

\* One iteration of the loop of GetMemoryInterval.
GetLoop(t) ==
  /\ thread[t].pc = "loop"
  /\ thread[t].call.op = "GetMemoryInterval"
  /\ LET i == thread[t].it IN
       IF i > Len(memory_ranges_)
         THEN thread' = [thread EXCEPT ![t].result = MemoryInterval, ![t].pc = "unlock"]
         ELSE IF Contains(memory_ranges_[i], thread[t].call.point)
                THEN thread' = [thread EXCEPT ![t].result = memory_ranges_[i],
                                              ![t].pc = "unlock"]
                ELSE thread' = [thread EXCEPT ![t].it = i + 1]
  /\ UNCHANGED <<memory_ranges_, lock_, lin, expect, seqVars, protoVars>>

\* return memory_ranges_.size();
Size(t) ==
  /\ thread[t].pc = "size"
  /\ thread' = [thread EXCEPT ![t].result = Len(memory_ranges_), ![t].pc = "unlock"]
  /\ UNCHANGED <<memory_ranges_, lock_, lin, expect, seqVars, protoVars>>

\* The lock_guard destructor.
Unlock(t) ==
  /\ thread[t].pc = "unlock"
  /\ lock_' = NoThread
  /\ thread' = [thread EXCEPT ![t].pc = "return"]
  /\ UNCHANGED <<memory_ranges_, lin, expect, seqVars, protoVars>>

\* The call returns to its caller.
Return(t) ==
  /\ thread[t].pc = "return"
  /\ thread' = [thread EXCEPT ![t] = Idle]
  /\ expect' = [expect EXCEPT ![t] = Void]
  /\ UNCHANGED <<memory_ranges_, lock_, lin, seqVars, protoVars>>

ConcNext ==
  \E t \in Threads :
    \/ Invoke(t)
    \/ Lock(t)
    \/ Ctor(t)
    \/ SetStart(t)
    \/ SetLength(t)
    \/ SetType(t)
    \/ SetIdentity(t)
    \/ EmplaceBack(t)
    \/ Begin(t)
    \/ RemoveLoop(t)
    \/ GetLoop(t)
    \/ Size(t)
    \/ Unlock(t)
    \/ Return(t)

\* The index called from the threads of Threads at once.
SpecConc == IdxInit /\ [][ConcNext]_vars

(***************************************************************************)
(* One ProfileProtoBuilder driven by Populate and AddArtificialSample.     *)
(***************************************************************************)
\* Frames as the sampler delivers them (JVMPI_CallFrame).
Frame(lineno, method_id) == [lineno |-> lineno, method_id |-> method_id]
NativeFrame(address) == Frame(kNativeFrameLineNum, address)

\* The trace keys of the multiset: frames, innermost first, and an attribute.
TraceKeys ==
  {[frames |-> <<Frame(0, 1), NativeFrame(1), Frame(0, 2), Frame(0, 1)>>, attr |-> 0],
   [frames |-> <<Frame(2, 1), NativeFrame(0), Frame(0, 3), Frame(1, 1), NativeFrame(1)>>,
    attr |-> 1]}

Periods == {3}
Durations == {60}
ArtificialNames == {<<"g", "c">>, <<"t", "$", "1">>}
ArtificialWeights == {7}
Attrs == {0, 1}

\* The orders in which a hash map may hand out the keys of S.
IterationOrders(S) ==
  {o \in [1 .. Cardinality(S) -> S] : \A i, j \in DOMAIN o : o[i] = o[j] => i = j}

\* The resolved frame a JVMPI_CallFrame stands for.
Resolved(frame) ==
  IF frame.lineno = kNativeFrameLineNum
    THEN [native |-> TRUE, address |-> frame.method_id]
    ELSE [native |-> FALSE] @@ GetStackFrameElements(frame)

ArtificialFrame(name) ==
  [native |-> FALSE, file_name |-> <<>>, class_name |-> <<>>, method_name |-> name,
   signature |-> <<>>, line_number |-> 0]

RECURSIVE SumCounts(_)
SumCounts(traces) ==
  IF traces = <<>> THEN 0 ELSE Head(traces).second + SumCounts(Tail(traces))

NonZero(traces) == SelectSeq(traces, LAMBDA tr : tr.second # 0)

ResolvedFrames(frames) == [i \in DOMAIN frames |-> Resolved(frames[i])]

CallPopulate ==
  \E S \in SUBSET TraceKeys :
    \E counts \in [S -> Counts], order \in IterationOrders(S),
       period_ns \in Periods, duration_ns \in Durations :
      LET traces == [i \in DOMAIN order |->
                       [first |-> order[i], second |-> counts[order[i]]]]
      IN /\ ecall.n < MaxEncCalls
         /\ enc' = Populate(enc, Str_cpu, traces, duration_ns, period_ns)
         /\ ecall' = [op |-> "Populate", n |-> ecall.n + 1, traces |-> traces,
                      period_ns |-> period_ns, duration_ns |-> duration_ns]
         /\ epre' = enc
         /\ sample_frames' = sample_frames \o
              [i \in DOMAIN NonZero(traces) |-> ResolvedFrames(NonZero(traces)[i].first.frames)]
         /\ fed_count' = fed_count + SumCounts(traces)
         /\ UNCHANGED <<idxVars, drv>>

CallAddArtificialSample ==
  \E name \in ArtificialNames, count \in Counts,
     weight \in ArtificialWeights, attr \in Attrs :
    /\ ecall.n < MaxEncCalls
    /\ enc' = AddArtificialSample(enc, name, count, weight, attr)
    /\ ecall' = [op |-> "AddArtificialSample", n |-> ecall.n + 1, name |-> name,
                 count |-> count, weight |-> weight, attr |-> attr]
    /\ epre' = enc
    /\ sample_frames' = Append(sample_frames, <<ArtificialFrame(name)>>)
    /\ fed_count' = fed_count + count
    /\ UNCHANGED <<idxVars, drv>>

EncInit ==
  /\ IdxOnlyInit
  /\ \E native_info \in NativeInfos : EncInitWith(native_info)
  /\ drv = NotCalled

EncNext ==
  \/ CallPopulate
  \/ CallAddArtificialSample

\* One encoder instance, any sequence of Populate and AddArtificialSample.
SpecEnc == EncInit /\ [][EncNext]_vars

(***************************************************************************)
(* One encoder instance with all four public operations.                   *)
(***************************************************************************)
\* The messages a caller hands to Encode.
CallerProfiles == {DefaultProfile}

CallEmit ==
  \E outcome \in EmitOutcomes :
    /\ ecall.n < MaxEncCalls
    /\ ecall' = [op |-> "Emit", n |-> ecall.n + 1, out |-> Emit(enc, outcome)]
    /\ epre' = enc
    /\ UNCHANGED <<enc, sample_frames, fed_count, idxVars, drv>>

CallEncode ==
  \E p \in CallerProfiles :
    /\ ecall.n < MaxEncCalls
    /\ enc' = Encode(enc, p).e
    /\ ecall' = [op |-> "Encode", n |-> ecall.n + 1, p |-> Encode(enc, p).p]
    /\ epre' = enc
    /\ UNCHANGED <<sample_frames, fed_count, idxVars, drv>>

EncSwapNext ==
  \/ CallPopulate
  \/ CallAddArtificialSample
  \/ CallEmit
  \/ CallEncode

\* One encoder instance, any sequence of Populate, AddArtificialSample, Emit
\* and Encode.
SpecEncSwap == EncInit /\ [][EncSwapNext]_vars

(***************************************************************************)
(* SerializeAndClearJavaCpuTraces, one statement per step.                 *)
(***************************************************************************)
\* The extra_frames (FrameCount: name, value) a caller passes.
ExtraFrameLists ==
  {<<>>,
   <<[name |-> <<"g", "c">>, value |-> MaxCount]>>,
   <<[name |-> <<"g", "c">>, value |-> 1], [name |-> <<"t", "$", "1">>, value |-> 0]>>}

\* The multisets a caller passes, each in one of its iteration orders.
TraceMultisets ==
  UNION {UNION {{[i \in DOMAIN order |-> [first |-> order[i], second |-> counts[order[i]]]] :
                   order \in IterationOrders(S)} : counts \in [S -> Counts]} :
           S \in SUBSET TraceKeys}

\* The call, with b constructed: ProfileProtoBuilder b(jvmti, native_info).
DrvInit ==
  /\ IdxOnlyInit
  /\ \E native_info \in NativeInfos : EncInitWith(native_info)
  /\ \E traces \in TraceMultisets, extra_frames \in ExtraFrameLists,
        period_ns \in Periods, duration_ns \in Durations :
       drv = [NotCalled EXCEPT !.pc = "populate", !.traces = traces, !.entry = traces,
                               !.extra_frames = extra_frames, !.period_ns = period_ns,
                               !.duration_ns = duration_ns]

\* b.Populate(profile_type, *traces, duration_ns, period_ns);
DrvPopulate ==
  /\ drv.pc = "populate"
  /\ enc' = Populate(enc, Str_cpu, drv.traces, drv.duration_ns, drv.period_ns)
  /\ ecall' = [op |-> "Populate", n |-> ecall.n + 1, traces |-> drv.traces,
               period_ns |-> drv.period_ns, duration_ns |-> drv.duration_ns]
  /\ epre' = enc
  /\ sample_frames' = sample_frames \o
       [i \in DOMAIN NonZero(drv.traces) |->
          ResolvedFrames(NonZero(drv.traces)[i].first.frames)]
  /\ fed_count' = fed_count + SumCounts(drv.traces)
  /\ drv' = [drv EXCEPT !.pc = "extra_frames"]
  /\ UNCHANGED idxVars

\* One iteration of the loop over extra_frames.
DrvAddArtificialSample ==
  /\ drv.pc = "extra_frames"
  /\ drv.extra_frames # <<>>
  /\ LET f == Head(drv.extra_frames) IN
       /\ enc' = AddArtificialSample(enc, f.name, f.value, f.value * drv.period_ns, 0)
       /\ ecall' = [op |-> "AddArtificialSample", n |-> ecall.n + 1, name |-> f.name,
                    count |-> f.value, weight |-> f.value * drv.period_ns, attr |-> 0]
       /\ sample_frames' = Append(sample_frames, <<ArtificialFrame(f.name)>>)
       /\ fed_count' = fed_count + f.value
  /\ epre' = enc
  /\ drv' = [drv EXCEPT !.extra_frames = Tail(@)]
  /\ UNCHANGED idxVars

\* LOG(INFO) << ... b.TotalCount() ... b.TotalWeight(), after the loop.
DrvLog ==
  /\ drv.pc = "extra_frames"
  /\ drv.extra_frames = <<>>
  /\ drv' = [drv EXCEPT !.pc = "clear"]
  /\ UNCHANGED <<idxVars, encVars>>

\* traces->Clear();
DrvClear ==
  /\ drv.pc = "clear"
  /\ drv' = [drv EXCEPT !.traces = <<>>, !.pc = "emit"]
  /\ UNCHANGED <<idxVars, encVars>>

\* return b.Emit();
DrvEmit ==
  \E outcome \in EmitOutcomes :
    /\ drv.pc = "emit"
    /\ drv' = [drv EXCEPT !.pc = "done",
                          !.emit_ok = BuilderEmit(enc.builder_, outcome).ok,
                          !.returned = TRUE,
                          !.result = Emit(enc, outcome)]
    /\ UNCHANGED <<idxVars, encVars>>

DrvNext ==
  \/ DrvPopulate
  \/ DrvAddArtificialSample
  \/ DrvLog
  \/ DrvClear
  \/ DrvEmit

\* One call of SerializeAndClearJavaCpuTraces.
SpecDrv == DrvInit /\ [][DrvNext]_vars

(***************************************************************************)
(* Claims about the index.                                                 *)
(***************************************************************************)
\* p lies in [start, start + length), in unbounded arithmetic.
Covers(r, p) == r.start <= p /\ p < r.start + r.length

NonOverlapping(ranges) ==
  \A i, j \in DOMAIN ranges :
    i # j => ~ \E p \in Addrs : Covers(ranges[i], p) /\ Covers(ranges[j], p)

\* C1: on an index whose ranges are pairwise non-overlapping,
\* GetMemoryInterval(p) returns the one range r with
\* r.start <= p < r.start + r.length when there is one, and the default
\* "not found" range (start 0, length 0, no identity) when p is outside all
\* ranges.
C1_LookupUnique ==
  (call.op = "GetMemoryInterval" /\ NonOverlapping(memory_ranges_)) =>
    LET hits == {i \in DOMAIN memory_ranges_ : Covers(memory_ranges_[i], call.point)}
    IN IF hits = {}
         THEN ret = [start |-> 0, length |-> 0, interval_type |-> COMPILED_CODE,
                     method_id |-> 0, name |-> ""]
         ELSE /\ Cardinality(hits) = 1
              /\ \A i \in hits : ret = memory_ranges_[i]

\* C1 witness: a lookup on two non-overlapping ranges found the second one.
C1_Witness ==
  /\ call.op = "GetMemoryInterval"
  /\ Len(memory_ranges_) = 2
  /\ NonOverlapping(memory_ranges_)
  /\ Covers(memory_ranges_[2], call.point)
  /\ ret = memory_ranges_[2]

\* C2: when the index holds a range with start s and identity m,
\* RemoveExecutableMemoryRange(s, m) removes exactly the first such range in
\* insertion order: Count() drops by one, the other ranges keep their
\* relative order, and no later lookup of an address that only the removed
\* range covered returns it.
C2_RemoveFirstMatch ==
  (/\ call.op = "RemoveExecutableMemoryRange"
   /\ \E i \in DOMAIN pre : pre[i].start = call.start /\ pre[i].method_id = call.method_id) =>
    LET k == CHOOSE i \in DOMAIN pre :
               /\ pre[i].start = call.start /\ pre[i].method_id = call.method_id
               /\ \A j \in 1 .. (i - 1) :
                    ~(pre[j].start = call.start /\ pre[j].method_id = call.method_id)
    IN /\ Count(memory_ranges_) = Len(pre) - 1
       /\ \A i \in 1 .. (k - 1) : memory_ranges_[i] = pre[i]
       /\ \A i \in k .. (Len(pre) - 1) : memory_ranges_[i] = pre[i + 1]
       /\ \A p \in Addrs :
            (/\ Covers(pre[k], p)
             /\ \A j \in DOMAIN pre : j # k => ~Covers(pre[j], p)) =>
              GetMemoryInterval(memory_ranges_, p) # pre[k]

\* C2 witness: two ranges matched the call and only the first was removed.
C2_Witness ==
  /\ call.op = "RemoveExecutableMemoryRange"
  /\ Len(pre) = 2
  /\ \A i \in DOMAIN pre : pre[i].start = call.start /\ pre[i].method_id = call.method_id
  /\ pre[1] # pre[2]
  /\ pre[1].length > 0
  /\ memory_ranges_ = <<pre[2]>>

\* The intervals a completed Add* call of the concurrent callers can store.
CompleteIntervals ==
  {SeqEffect(c, <<>>)[1] : c \in {d \in ConcCalls : IsAdd(d)}}

InCriticalSection(t) == thread[t].pc \notin {"idle", "lock", "return"}

\* C3: concurrent AddExecutableMemoryRange, AddNativeMemoryRange,
\* RemoveExecutableMemoryRange, GetMemoryInterval and Count calls are
\* linearizable: every call takes effect at one point between its start and
\* its return (lin is the index those points produce, in their order), each
\* call returns what it returns at that point of the sequential order, the
\* index equals lin whenever no call is inside it, and every range a call can
\* observe has all four fields as some Add* call set them.
C3_Linearizable ==
  /\ \A t, u \in Threads : (InCriticalSection(t) /\ InCriticalSection(u)) => t = u
  /\ (\A t \in Threads : ~InCriticalSection(t)) => memory_ranges_ = lin
  /\ \A t \in Threads : thread[t].pc = "return" => thread[t].result = expect[t]
  /\ \A i \in DOMAIN memory_ranges_ : memory_ranges_[i] \in CompleteIntervals
  /\ \A t \in Threads :
       (thread[t].pc = "return" /\ thread[t].call.op = "GetMemoryInterval") =>
         thread[t].result \in CompleteIntervals \cup {MemoryInterval}

\* C3 witness: a lookup returned a range while another thread, which started
\* a call on the index meanwhile, waits for the lock.
C3_Witness ==
  \E t, u \in Threads :
    /\ t # u
    /\ thread[t].pc = "unlock"
    /\ thread[t].call.op = "GetMemoryInterval"
    /\ thread[t].result \in CompleteIntervals
    /\ thread[u].pc = "lock"
    /\ thread[u].call.op = "RemoveExecutableMemoryRange"
    /\ Len(memory_ranges_) = 2

(***************************************************************************)
(* Claims about the encoder.                                               *)
(***************************************************************************)
Profile == enc.builder_.profile

StringAt(profile, id) == profile.string_table[id + 1]

\* Every (frame, location id) pair of the recorded samples.
FrameIds ==
  UNION {{<<sample_frames[k][i], Profile.sample[k].location_id[i]>> :
            i \in DOMAIN sample_frames[k]} : k \in DOMAIN sample_frames}

LocationsWithId(id) == {l \in DOMAIN Profile.location : Profile.location[l].id = id}

SameButLine(f, g) ==
  /\ f.class_name = g.class_name /\ f.method_name = g.method_name
  /\ f.signature = g.signature /\ f.file_name = g.file_name
  /\ f.line_number # g.line_number

\* C4: within one encoder, over any sequence of Populate and
\* AddArtificialSample calls, two managed frames that resolve to the same
\* (class, method, signature, file, line) get the same Location id, and two
\* that differ only in the line get distinct Location ids whose line records
\* carry the same Function id.
C4_ManagedDedup ==
  /\ Len(Profile.sample) = Len(sample_frames)
  /\ \A k \in DOMAIN sample_frames :
       Len(Profile.sample[k].location_id) = Len(sample_frames[k])
  /\ \A p, q \in FrameIds :
       (~p[1].native /\ ~q[1].native) =>
         /\ p[1] = q[1] => p[2] = q[2]
         /\ SameButLine(p[1], q[1]) =>
              /\ p[2] # q[2]
              /\ \A l \in LocationsWithId(p[2]), m \in LocationsWithId(q[2]) :
                   /\ Len(Profile.location[l].line) = 1
                   /\ Len(Profile.location[m].line) = 1
                   /\ Profile.location[l].line[1].function_id =
                        Profile.location[m].line[1].function_id
              /\ LocationsWithId(p[2]) # {} /\ LocationsWithId(q[2]) # {}

\* C4 witness: a profile in which the frame at A.f line 10 was met through
\* two different bytecode indices in two traces, and A.f line 11 as well.
C4_Witness ==
  /\ ecall.op = "Populate"
  /\ Len(Profile.sample) = 2
  /\ \E p, q \in FrameIds : ~p[1].native /\ ~q[1].native /\ SameButLine(p[1], q[1])
  /\ Profile.sample[1].location_id[1] = Profile.sample[2].location_id[4]

\* C5: within one encoder, two native frames with the same address (0
\* included) get the same Location id, two with different addresses get
\* different ids, and no native Location shares its id with a managed
\* Location, in whatever order the frames are resolved.
C5_NativeDedup ==
  /\ Len(Profile.sample) = Len(sample_frames)
  /\ \A k \in DOMAIN sample_frames :
       Len(Profile.sample[k].location_id) = Len(sample_frames[k])
  /\ \A p, q \in FrameIds :
       /\ (p[1].native /\ q[1].native) => (p[1].address = q[1].address <=> p[2] = q[2])
       /\ (p[1].native /\ ~q[1].native) => p[2] # q[2]
  /\ \A l, m \in DOMAIN Profile.location :
       (Profile.location[l].line = <<>> /\ Profile.location[m].line # <<>>) =>
         Profile.location[l].id # Profile.location[m].id

\* C5 witness: address 1 met in two traces, address 0 in one, managed frames
\* resolved before and after them.
C5_Witness ==
  /\ ecall.op = "Populate"
  /\ Len(Profile.sample) = 2
  /\ Len(Profile.sample[1].location_id) = 5
  /\ Profile.sample[1].location_id[5] = Profile.sample[2].location_id[2]
  /\ \E p \in FrameIds : p[1].native /\ p[1].address = 0

\* The Location of id describes frame f: an address and no line record for a
\* native frame, one (function, line) record naming the frame otherwise.
Describes(id, f) ==
  /\ Cardinality(LocationsWithId(id)) = 1
  /\ \A l \in LocationsWithId(id) :
       LET loc == Profile.location[l] IN
         IF f.native
           THEN loc.address = f.address /\ loc.line = <<>>
           ELSE /\ Len(loc.line) = 1
                /\ loc.line[1].line = f.line_number
                /\ \E n \in DOMAIN Profile.function :
                     /\ Profile.function[n].id = loc.line[1].function_id
                     /\ StringAt(Profile, Profile.function[n].system_name) =
                          FrameName(f.class_name, f.method_name,
                                    FixMethodParameters(f.signature))
                     /\ StringAt(Profile, Profile.function[n].filename) = f.file_name

NewSamples == SubSeq(Profile.sample, Len(epre.builder_.profile.sample) + 1, Len(Profile.sample))

\* C6: Populate records, for every trace with count c # 0, exactly one sample
\* with values [c, c * period_ns] and the location ids of the trace's frames
\* in frame order, one per frame; it adds as many samples as there are traces
\* with a non-zero count.
C6_PopulateSamples ==
  ecall.op = "Populate" =>
    LET nz == NonZero(ecall.traces) IN
      /\ Len(NewSamples) = Len(nz)
      /\ SubSeq(Profile.sample, 1, Len(epre.builder_.profile.sample)) =
           epre.builder_.profile.sample
      /\ \A k \in DOMAIN nz :
           /\ NewSamples[k].value = <<nz[k].second, nz[k].second * ecall.period_ns>>
           /\ Len(NewSamples[k].location_id) = Len(nz[k].first.frames)
           /\ \A i \in DOMAIN nz[k].first.frames :
                Describes(NewSamples[k].location_id[i], Resolved(nz[k].first.frames[i]))

\* C6 witness: Populate met a zero-count trace and a trace counted twice.
C6_Witness ==
  /\ ecall.op = "Populate"
  /\ Len(ecall.traces) = 2
  /\ ecall.traces[1].second = 0
  /\ ecall.traces[2].second = 2
  /\ Len(NewSamples) = 1

RECURSIVE SumFirstValues(_)
SumFirstValues(samples) ==
  IF samples = <<>> THEN 0 ELSE Head(samples).value[1] + SumFirstValues(Tail(samples))

\* C7: after Populate and any number of AddArtificialSample calls,
\* TotalCount() is the sum of the non-zero trace counts plus the counts of the
\* artificial samples, and is the sum of the first value of every sample of
\* the profile.
C7_TotalCount ==
  /\ TotalCount(enc) = fed_count
  /\ TotalCount(enc) = SumFirstValues(Profile.sample)

\* C7 witness: Populate recorded samples and an artificial sample followed.
C7_Witness ==
  /\ ecall.op = "AddArtificialSample"
  /\ ecall.count > 0
  /\ Len(epre.builder_.profile.sample) = 2
  /\ epre.total_count_ > 2
  /\ TotalCount(enc) = epre.total_count_ + ecall.count

\* C8: AddArtificialSample(name, count, weight, attr) records exactly one
\* sample with values [count, weight] and one location id, that of a Location
\* whose single line record has line 0 and a Function named name with no
\* class, signature or file; the sample has no label when attr = 0 and
\* exactly one label, with key "attr" and value attr, otherwise.
C8_ArtificialSample ==
  ecall.op = "AddArtificialSample" =>
    /\ Len(NewSamples) = 1
    /\ SubSeq(Profile.sample, 1, Len(epre.builder_.profile.sample)) =
         epre.builder_.profile.sample
    /\ NewSamples[1].value = <<ecall.count, ecall.weight>>
    /\ Len(NewSamples[1].location_id) = 1
    /\ Cardinality(LocationsWithId(NewSamples[1].location_id[1])) = 1
    /\ \A l \in LocationsWithId(NewSamples[1].location_id[1]) :
         /\ Len(Profile.location[l].line) = 1
         /\ Profile.location[l].line[1].line = 0
         /\ \E n \in DOMAIN Profile.function :
              /\ Profile.function[n].id = Profile.location[l].line[1].function_id
              /\ StringAt(Profile, Profile.function[n].system_name) = ecall.name
              /\ StringAt(Profile, Profile.function[n].name) =
                   SimplifyFunctionName(ecall.name)
              /\ Profile.function[n].filename = 0
    /\ ecall.attr = 0 => NewSamples[1].label = <<>>
    /\ ecall.attr # 0 =>
         /\ Len(NewSamples[1].label) = 1
         /\ StringAt(Profile, NewSamples[1].label[1].key) = Str_attr
         /\ NewSamples[1].label[1].str = ecall.attr

\* C8 witness: an artificial sample without attribute after one with it.
C8_Witness ==
  /\ ecall.op = "AddArtificialSample"
  /\ ecall.attr = 0
  /\ Len(Profile.sample) = 2
  /\ Profile.sample[1].label # <<>>
  /\ Profile.sample[2].label = <<>>
  /\ Profile.sample[1].location_id = Profile.sample[2].location_id

(***************************************************************************)
(* Claims about the driver.                                                *)
(***************************************************************************)
\* The samples a reader finds in bytes; it stops at a field cut short.
RECURSIVE ParseSamples(_)
ParseSamples(bytes) ==
  IF Len(bytes) < 2 \/ Len(bytes) < 2 + bytes[2] THEN <<>>
  ELSE LET payload == SubSeq(bytes, 3, 2 + bytes[2])
           rest == SubSeq(bytes, 3 + bytes[2], Len(bytes))
           nloc == payload[1]
           nval == payload[2 + nloc]
       IN IF bytes[1] = 2
            THEN <<[location_id |-> SubSeq(payload, 2, 1 + nloc),
                    value |-> SubSeq(payload, 3 + nloc, 2 + nloc + nval)]>>
                   \o ParseSamples(rest)
            ELSE ParseSamples(rest)

\* The steps so far came in the order Populate, extra counters, Clear, Emit.
DrvInOrder ==
  /\ drv.pc = "populate" => Profile.sample = <<>> /\ drv.traces = drv.entry
  /\ drv.pc = "extra_frames" =>
       /\ drv.traces = drv.entry
       /\ ecall.op \in {"Populate", "AddArtificialSample"}
  /\ drv.pc = "clear" => drv.traces = drv.entry /\ drv.extra_frames = <<>>
  /\ drv.pc \in {"emit", "done"} => drv.traces = <<>> /\ drv.extra_frames = <<>>
  /\ drv.pc # "populate" =>
       /\ Len(Profile.sample) >= Len(NonZero(drv.entry))
       /\ \A k \in DOMAIN NonZero(drv.entry) :
            /\ Profile.sample[k].value =
                 <<NonZero(drv.entry)[k].second,
                   NonZero(drv.entry)[k].second * drv.period_ns>>
            /\ Len(Profile.sample[k].location_id) =
                 Len(NonZero(drv.entry)[k].first.frames)
  /\ drv.pc # "done" => ~drv.returned

\* C9: SerializeAndClearJavaCpuTraces runs Populate over every trace, then
\* adds every extra counter, then clears the multiset, then serializes; the
\* multiset is not cleared before its traces are recorded, it is empty at
\* the return, and the returned bytes hold the sample of every trace that
\* had a non-zero count on entry.
C9_OrderAndBytes ==
  /\ DrvInOrder
  /\ drv.pc = "done" =>
       /\ drv.traces = <<>>
       /\ \A k \in DOMAIN NonZero(drv.entry) :
            /\ k <= Len(ParseSamples(drv.result))
            /\ ParseSamples(drv.result)[k].value =
                 <<NonZero(drv.entry)[k].second,
                   NonZero(drv.entry)[k].second * drv.period_ns>>
            /\ ParseSamples(drv.result)[k].location_id = Profile.sample[k].location_id

\* What the code does guarantee: the order of the steps in every run, and
\* the samples in the returned bytes when builder_.Emit succeeded.
DrvBytesWhenSerialized ==
  /\ DrvInOrder
  /\ (drv.pc = "done" /\ drv.emit_ok) =>
       /\ drv.traces = <<>>
       /\ Len(ParseSamples(drv.result)) = Len(Profile.sample)
       /\ \A k \in DOMAIN Profile.sample :
            /\ ParseSamples(drv.result)[k].value = Profile.sample[k].value
            /\ ParseSamples(drv.result)[k].location_id = Profile.sample[k].location_id

\* C10: when the serialization fails, the caller of Emit and of
\* SerializeAndClearJavaCpuTraces gets a hard failure: the call does not
\* return bytes as its normal result.
C10_FailurePropagated ==
  (drv.pc = "done" /\ ~drv.emit_ok) => ~drv.returned

(***************************************************************************)
(* Frames the symbol resolver knows nothing about.                         *)
(***************************************************************************)
\* A managed frame for which the resolver returned empty fields.
MissingSymbol(f) ==
  /\ ~f.native
  /\ f.class_name = <<>> /\ f.method_name = <<>>
  /\ f.signature = <<>> /\ f.file_name = <<>>

\* Every sample recorded so far carries one location id per frame of its trace.
EveryFrameRecorded ==
  /\ Len(Profile.sample) = Len(sample_frames)
  /\ \A k \in DOMAIN sample_frames :
       Len(Profile.sample[k].location_id) = Len(sample_frames[k])

\* C11 as stated: when the symbol resolver returns empty fields for a managed
\* frame, the encoder falls back to an address-only Location for that frame
\* (a Location with no function/line record), and the encode pass does not
\* fail.
C11_AddressOnlyFallback ==
  /\ EveryFrameRecorded
  /\ \A p \in FrameIds :
       MissingSymbol(p[1]) =>
         /\ Cardinality(LocationsWithId(p[2])) = 1
         /\ \A l \in LocationsWithId(p[2]) : Profile.location[l].line = <<>>

\* C11 amended: when the symbol resolver returns empty fields for a managed
\* frame, the encoder records for it a Location with no address and exactly
\* one (function, line) record, whose Function has an empty name, an empty
\* system name and an empty file name; the sample of the trace is recorded
\* with one location id per frame, so the encode pass does not fail.
C11_MissingSymbolLocation ==
  /\ EveryFrameRecorded
  /\ \A p \in FrameIds :
       MissingSymbol(p[1]) =>
         /\ Cardinality(LocationsWithId(p[2])) = 1
         /\ \A l \in LocationsWithId(p[2]) :
              LET loc == Profile.location[l] IN
                /\ loc.address = 0
                /\ Len(loc.line) = 1
                /\ loc.line[1].line = p[1].line_number
                /\ Cardinality({n \in DOMAIN Profile.function :
                      Profile.function[n].id = loc.line[1].function_id}) = 1
                /\ \A n \in DOMAIN Profile.function :
                     Profile.function[n].id = loc.line[1].function_id =>
                       /\ StringAt(Profile, Profile.function[n].name) = <<>>
                       /\ StringAt(Profile, Profile.function[n].system_name) = <<>>
                       /\ StringAt(Profile, Profile.function[n].filename) = <<>>

\* Populate has recorded a trace holding a frame without symbols.
C11_Witness ==
  /\ ecall.op = "Populate"
  /\ \E p \in FrameIds : MissingSymbol(p[1])

(***************************************************************************)
(* The sample-value dimensions.                                            *)
(***************************************************************************)
\* The (type, unit) strings of the sample types the profile declares.
DeclaredDimensions ==
  [i \in DOMAIN Profile.sample_type |->
     <<StringAt(Profile, Profile.sample_type[i].type),
       StringAt(Profile, Profile.sample_type[i].unit)>>]

\* The call just made is the Populate of an encoder not populated before.
PopulatedOnce ==
  /\ ecall.op = "Populate"
  /\ epre.builder_.profile.sample_type = <<>>

\* C12: after Populate on any multiset (the one Populate of an encoder, as
\* the driver runs it; artificial samples may come before or after) the
\* profile declares exactly the two sample-value dimensions (sample, count)
\* and (profile_type, nanoseconds), in that order, and every recorded sample
\* has exactly two values; Populate with an empty multiset and no native
\* mapping on a new encoder yields zero samples, zero locations and those two
\* dimensions.
C12_TwoDimensions ==
  /\ PopulatedOnce =>
       DeclaredDimensions = << <<Str_sample, Str_count>>, <<Str_cpu, Str_nanoseconds>> >>
  /\ \A k \in DOMAIN Profile.sample : Len(Profile.sample[k].value) = 2
  /\ (PopulatedOnce /\ ecall.n = 1 /\ ecall.traces = <<>> /\ enc.native_info_ = <<>>) =>
       /\ Profile.sample = <<>>
       /\ Profile.location = <<>>
       /\ Profile.function = <<>>
       /\ Profile.mapping = <<>>
       /\ Len(Profile.sample_type) = 2

\* A first Populate that recorded two samples, after an artificial sample.
C12_Witness ==
  /\ PopulatedOnce
  /\ ecall.n = 2
  /\ Len(NewSamples) = 2
  /\ Len(Profile.sample_type) = 2

\* A new encoder populated with an empty multiset and no native mapping.
C12_EmptyPopulate ==
  /\ PopulatedOnce /\ ecall.n = 1 /\ ecall.traces = <<>> /\ enc.native_info_ = <<>>
  /\ Profile.sample = <<>>

(***************************************************************************)
(* Native ranges and removal.                                              *)
(***************************************************************************)
NativeRanges(ranges) == SelectSeq(ranges, LAMBDA r : r.interval_type = NATIVE)

\* C13: a native range, once added by AddNativeMemoryRange, is never removed:
\* whatever AddExecutableMemoryRange, AddNativeMemoryRange or
\* RemoveExecutableMemoryRange call was just made (a zero method identity
\* included), every native range the index held before the call is still in
\* it after the call.
C13_NativeNeverRemoved ==
  LET before == NativeRanges(pre)
      after == NativeRanges(memory_ranges_)
  IN call.op \in {"AddExecutableMemoryRange", "AddNativeMemoryRange",
                  "RemoveExecutableMemoryRange"} =>
       /\ Len(after) >= Len(before)
       /\ SubSeq(after, 1, Len(before)) = before

\* C14: RemoveExecutableMemoryRange(s, m) on an index that holds no range with
\* both start s and identity m is silently ignored: it returns nothing, and
\* the sequence of ranges, Count() and the result of GetMemoryInterval for
\* every address are the same after the call as before it; ranges matching
\* only the start or only the identity are kept.
C14_RemoveMissIgnored ==
  (/\ call.op = "RemoveExecutableMemoryRange"
   /\ ~\E i \in DOMAIN pre :
         pre[i].start = call.start /\ pre[i].method_id = call.method_id) =>
    /\ ret = Void
    /\ memory_ranges_ = pre
    /\ Count(memory_ranges_) = Count(pre)
    /\ \A p \in Addrs : GetMemoryInterval(memory_ranges_, p) = GetMemoryInterval(pre, p)
    /\ \A i \in DOMAIN pre :
         (pre[i].start = call.start \/ pre[i].method_id = call.method_id) =>
           \E j \in DOMAIN memory_ranges_ : memory_ranges_[j] = pre[i]

\* C14 witness: the call missed an index holding one range with its start
\* only and one with its identity only, and both are still there.
C14_Witness ==
  /\ call.op = "RemoveExecutableMemoryRange"
  /\ Len(pre) = 2
  /\ pre[1].start = call.start /\ pre[1].method_id # call.method_id
  /\ pre[2].start # call.start /\ pre[2].method_id = call.method_id
  /\ pre[1].length > 0 /\ pre[2].length > 0
  /\ memory_ranges_ = pre

(***************************************************************************)
(* Lookup among overlapping ranges.                                        *)
(***************************************************************************)
\* The positions of the ranges that cover p.
Covering(ranges, p) == {i \in DOMAIN ranges : Covers(ranges[i], p)}

\* The range lookup is to return for p: the earliest inserted one covering p.
EarliestCovering(ranges, p) ==
  IF Covering(ranges, p) = {} THEN MemoryInterval
  ELSE ranges[SeqMin(Covering(ranges, p))]

\* C15: the index keeps its ranges in insertion order (an add goes to the
\* end, a remove keeps the order of the others), and when several ranges
\* contain an address p, GetMemoryInterval(p) returns the one inserted
\* earliest among those still in the index; removing that range makes the
\* next-earliest containing range the result.
C15_EarliestInserted ==
  /\ call.op \in {"AddExecutableMemoryRange", "AddNativeMemoryRange"} =>
       /\ Len(memory_ranges_) = Len(pre) + 1
       /\ SubSeq(memory_ranges_, 1, Len(pre)) = pre
  /\ call.op = "GetMemoryInterval" =>
       /\ memory_ranges_ = pre
       /\ ret = EarliestCovering(memory_ranges_, call.point)
  /\ call.op = "RemoveExecutableMemoryRange" =>
       \A p \in Addrs :
         LET first == SeqMin(Covering(pre, p))
             later == {i \in Covering(pre, p) : i > first}
         IN (/\ Covering(pre, p) # {}
             /\ Len(memory_ranges_) = Len(pre) - 1
             /\ memory_ranges_ = EraseAt(pre, first)) =>
              GetMemoryInterval(memory_ranges_, p) =
                IF later = {} THEN MemoryInterval ELSE pre[SeqMin(later)]

\* C15 witness: two different ranges covered an address, the lookup's answer
\* for it was the first, and the first has just been removed, so that the
\* second is the answer now.
C15_Witness ==
  /\ call.op = "RemoveExecutableMemoryRange"
  /\ Len(pre) = 2 /\ pre[1] # pre[2]
  /\ memory_ranges_ = <<pre[2]>>
  /\ \E p \in Addrs :
       /\ Covering(pre, p) = {1, 2}
       /\ GetMemoryInterval(pre, p) = pre[1]
       /\ GetMemoryInterval(memory_ranges_, p) = pre[2]

(***************************************************************************)
(* Dense Location ids.                                                     *)
(***************************************************************************)
\* What makes two resolved frames the same frame for the encoder.
FrameKey(f) ==
  IF f.native
    THEN <<"address", f.address>>
    ELSE <<"line", FrameName(f.class_name, f.method_name, FixMethodParameters(f.signature)),
           f.file_name, f.line_number>>

\* The frames in keys order without the ones whose key came earlier.
RECURSIVE FirstSeen(_, _)
FirstSeen(frames, seen) ==
  IF frames = <<>> THEN <<>>
  ELSE IF FrameKey(Head(frames)) \in seen
         THEN FirstSeen(Tail(frames), seen)
         ELSE <<Head(frames)>> \o
              FirstSeen(Tail(frames), seen \cup {FrameKey(Head(frames))})

\* Every frame resolved so far, in the order of resolution.
SeenFrames == Flatten(sample_frames)

\* C16: in every state reached by Populate and AddArtificialSample calls on
\* one encoder the Location ids of the profile are exactly 1..N with no gap
\* and no duplicate, N being the number of Locations, and they are assigned
\* in first-seen order across native and managed frames together: the i-th
\* Location is the one of the i-th distinct frame resolved. Resolving a frame
\* seen before adds no Location, so N is the number of distinct frames.
C16_DenseLocationIds ==
  LET order == FirstSeen(SeenFrames, {})
  IN /\ \A i \in DOMAIN Profile.location : Profile.location[i].id = i
     /\ Len(Profile.location) = Len(order)
     /\ Len(order) = Cardinality({FrameKey(SeenFrames[i]) : i \in DOMAIN SeenFrames})
     /\ \A i \in DOMAIN order : i \in DOMAIN Profile.location /\ Describes(i, order[i])
     /\ \A p \in FrameIds : p[2] \in 1 .. Len(Profile.location)

\* C16 witness: native and managed frames were resolved in turn, some of them
\* more than once, and an artificial frame after them.
C16_Witness ==
  /\ ecall.op = "AddArtificialSample"
  /\ Len(SeenFrames) > Len(Profile.location)
  /\ Len(Profile.location) >= 4
  /\ \E i, j \in DOMAIN Profile.location :
       /\ i < j
       /\ Profile.location[i].line # <<>>
       /\ Profile.location[j].line = <<>>
  /\ \E i, j \in DOMAIN Profile.location :
       /\ i < j
       /\ Profile.location[i].line = <<>>
       /\ Profile.location[j].line # <<>>

(***************************************************************************)
(* Traces with count 0.                                                    *)
(***************************************************************************)
\* C17: a trace with count 0 is a no-op for Populate: it adds no sample,
\* resolves none of its frames (no Location, no Function, no dedup-table
\* entry) and leaves TotalCount() and TotalWeight() unchanged; the encoder
\* after Populate equals the one obtained from the same multiset without the
\* traces of count 0.
C17_ZeroCountNoOp ==
  ecall.op = "Populate" =>
    /\ enc = Populate(epre, Str_cpu, NonZero(ecall.traces), ecall.duration_ns,
                      ecall.period_ns)
    /\ Len(NewSamples) = Len(NonZero(ecall.traces))
    /\ NonZero(ecall.traces) = <<>> =>
         /\ Profile.sample = epre.builder_.profile.sample
         /\ Profile.location = epre.builder_.profile.location
         /\ Profile.function = epre.builder_.profile.function
         /\ enc.builder_.functions_ = epre.builder_.functions_
         /\ enc.line_map_ = epre.line_map_
         /\ enc.address_location_ = epre.address_location_
         /\ TotalCount(enc) = TotalCount(epre)
         /\ TotalWeight(enc) = TotalWeight(epre)

\* C17 witness: Populate met a trace of count 0 before one of count 1, and
\* the frames only the first holds have no Location.
C17_Witness ==
  /\ ecall.op = "Populate"
  /\ Len(ecall.traces) = 2
  /\ ecall.traces[1].second = 0 /\ ecall.traces[2].second = 1
  /\ Len(ecall.traces[1].first.frames) > Len(Profile.location)
  /\ Len(NewSamples) = 1

\* Populate met nothing but traces of count 0.
C17_AllZero ==
  /\ ecall.op = "Populate"
  /\ Len(ecall.traces) = 2
  /\ NonZero(ecall.traces) = <<>>
  /\ Profile.location = <<>>

(***************************************************************************)
(* The lengths of the stored ranges.                                       *)
(***************************************************************************)
\* C18: every range stored in the index has length > 0, in every state
\* reachable by AddExecutableMemoryRange and AddNativeMemoryRange calls with
\* any arguments.
C18_PositiveLength ==
  \A i \in DOMAIN memory_ranges_ : memory_ranges_[i].length > 0

(***************************************************************************)
(* The dedup tables and the profile.                                       *)
(***************************************************************************)
\* C19: after any sequence of Populate, AddArtificialSample, Emit and Encode
\* calls on one encoder the dedup tables agree with the profile: every id
\* stored in address_location_ or line_map_ is the id of exactly one Location
\* of the encoder's current profile, that Location is the one created for the
\* same key (the address, or the function id and the line), and every
\* location id placed in a sample of the profile identifies a Location of
\* the same profile.
C19_TablesAgree ==
  /\ \A a \in DOMAIN enc.address_location_ :
       /\ Cardinality(LocationsWithId(enc.address_location_[a])) = 1
       /\ \A l \in LocationsWithId(enc.address_location_[a]) :
            Profile.location[l].address = a /\ Profile.location[l].line = <<>>
  /\ \A k \in DOMAIN enc.line_map_ :
       /\ Cardinality(LocationsWithId(enc.line_map_[k])) = 1
       /\ \A l \in LocationsWithId(enc.line_map_[k]) :
            Profile.location[l].line = <<[function_id |-> k[1], line |-> k[2]]>>
  /\ \A s \in DOMAIN Profile.sample :
       \A i \in DOMAIN Profile.sample[s].location_id :
         Cardinality(LocationsWithId(Profile.sample[s].location_id[i])) = 1

(***************************************************************************)
(* Contains at the top of the address space.                               *)
(***************************************************************************)
\* The range's end start + length lies beyond the largest address.
EndsBeyondAddressSpace(r) == r.start + r.length > AddrSpace

\* C20: with addresses as w-bit unsigned integers, Contains(p) is true exactly
\* when start <= p and p - start < length in unbounded arithmetic, also for a
\* range whose start + length exceeds 2^w: such a range contains every
\* address from start to the largest address and never an address below
\* start reached by wrap-around.
C20_ContainsNoWrap ==
  \A i \in DOMAIN memory_ranges_ :
    LET r == memory_ranges_[i] IN
      /\ \A p \in Addrs :
           Contains(r, p) <=> (r.start <= p /\ p - r.start < r.length)
      /\ EndsBeyondAddressSpace(r) =>
           /\ \A p \in r.start .. MaxAddr : Contains(r, p)
           /\ \A p \in 0 .. (r.start - 1) : ~Contains(r, p)
           /\ GetMemoryInterval(<<r>>, MaxAddr) = r
           /\ \A p \in 0 .. (r.start - 1) : GetMemoryInterval(<<r>>, p) = MemoryInterval

\* C20 witness: the lookup of the largest address returned a range whose end
\* lies beyond the address space.
C20_Witness ==
  /\ call.op = "GetMemoryInterval"
  /\ call.point = MaxAddr
  /\ Len(memory_ranges_) >= 1
  /\ EndsBeyondAddressSpace(memory_ranges_[1])
  /\ ret = memory_ranges_[1]

====
